---- MODULE Spec2Model ----
(***************************************************************************)
(* Question generator: URL -> page fetch (retried) -> text extraction ->   *)
(* length gate -> smart truncation -> completion request (retried) ->      *)
(* HTTP answer.  Model of agent.py, openai_module.py and main.py.          *)
(*                                                                         *)
(* A Python str is represented run-length encoded: a sequence of runs      *)
(* [ch |-> character, n |-> repetitions], n >= 1, adjacent runs holding    *)
(* different characters.  Indices are 0-based as in Python.                *)
(***************************************************************************)
EXTENDS Integers, Sequences, FiniteSets, TLC

(* ------------------------------ bounds ---------------------------------- *)
MaxRuns == 3
MaxCap == 10
MaxLines == 5

(* --------------------------- program constants -------------------------- *)
MAX_TEXT_LENGTH == 10000
MAX_TEXT_LENGTH_FOR_OPENAI == 8000
MIN_TEXT_LENGTH == 50
FETCH_MAX_ATTEMPTS == 3
GEN_MAX_ATTEMPTS == 3
MAX_QUESTIONS == 5
MIN_QUESTION_LENGTH == 3

(* characters outside ASCII are written by their code point *)
sentence_endings == <<".", "!", "?", "U+3002", "U+FF01", "U+FF1F">>
Whitespace == {" ", "\n", "\t"}

(* ------------------------------- str ------------------------------------ *)
Run(c, k) == [ch |-> c, n |-> k]

RECURSIVE TextLen(_)
TextLen(t) == IF t = <<>> THEN 0 ELSE Head(t).n + TextLen(Tail(t))

\* text[i], 0 <= i < len(text)
RECURSIVE CharAt(_, _)
CharAt(t, i) == IF i < Head(t).n THEN Head(t).ch ELSE CharAt(Tail(t), i - Head(t).n)

\* merges adjacent runs of one character
RECURSIVE Norm(_)
Norm(t) ==
    IF Len(t) < 2 THEN t
    ELSE IF t[1].ch = t[2].ch
         THEN Norm(<<Run(t[1].ch, t[1].n + t[2].n)>> \o SubSeq(t, 3, Len(t)))
         ELSE <<t[1]>> \o Norm(Tail(t))

\* a + b
Concat(a, b) == Norm(a \o b)

\* text[:k] for k >= 0
RECURSIVE Slice(_, _)
Slice(t, k) ==
    IF t = <<>> \/ k <= 0 THEN <<>>
    ELSE IF Head(t).n >= k THEN <<Run(Head(t).ch, k)>>
         ELSE <<Head(t)>> \o Slice(Tail(t), k - Head(t).n)

\* text.rfind(c): the highest index holding c, -1 when there is none
RECURSIVE rfind(_, _)
rfind(t, c) ==
    IF t = <<>> THEN -1
    ELSE IF t[Len(t)].ch = c THEN TextLen(t) - 1
         ELSE rfind(SubSeq(t, 1, Len(t) - 1), c)

RECURSIVE lstrip(_)
lstrip(t) == IF t /= <<>> /\ Head(t).ch \in Whitespace THEN lstrip(Tail(t)) ELSE t

RECURSIVE rstrip(_)
rstrip(t) ==
    IF t /= <<>> /\ t[Len(t)].ch \in Whitespace
    THEN rstrip(SubSeq(t, 1, Len(t) - 1)) ELSE t

\* text.strip()
strip(t) == rstrip(lstrip(t))

\* a is text[:len(a)]
IsPrefix(a, t) ==
    /\ TextLen(a) <= TextLen(t)
    /\ \A i \in 0..(TextLen(a) - 1) : CharAt(a, i) = CharAt(t, i)

(* ------------------------- smart_truncate_text -------------------------- *)
\* max_length values (multiples of 10, up to 10010) whose double product
\* max_length * 0.7 rounds to just below the integer 7 * max_length / 10
RoundsBelow07 ==
    {m \in (90..90) \cup (170..180) \cup (330..360) \cup (650..730)
           \cup (1290..1460) \cup (2570..2920) \cup (5130..5850) : m % 10 = 0}

\* pos > max_length * 0.7, the product taken in double arithmetic
InLast30Percent(pos, max_length) ==
    IF max_length \in RoundsBelow07
    THEN 10 * pos >= 7 * max_length
    ELSE 10 * pos > 7 * max_length

MaxInt(a, b) == IF a >= b THEN a ELSE b

\* the loop over sentence_endings, lines 270-275
RECURSIVE LastSentenceEnd(_, _, _)
LastSentenceEnd(truncated, max_length, k) ==
    IF k > Len(sentence_endings) THEN -1
    ELSE LET pos == rfind(truncated, sentence_endings[k])
             rest == LastSentenceEnd(truncated, max_length, k + 1)
         IN IF InLast30Percent(pos, max_length) THEN MaxInt(rest, pos) ELSE rest

\* a plausible slip: the delimiter is searched in text, not in the prefix
smart_truncate_text_unbounded(text, max_length) ==
    IF TextLen(text) <= max_length THEN text
    ELSE LET last_sentence_end == LastSentenceEnd(text, max_length, 1)
         IN IF last_sentence_end > 0
            THEN Slice(text, last_sentence_end + 1)
            ELSE Slice(text, max_length)

\* a plausible slip: a text of exactly max_length characters is cut as well
smart_truncate_text_strict(text, max_length) ==
    IF TextLen(text) < max_length THEN text
    ELSE LET truncated == Slice(text, max_length)
             last_sentence_end == LastSentenceEnd(truncated, max_length, 1)
             last_space == rfind(truncated, " ")
         IN IF last_sentence_end > 0
            THEN Slice(text, last_sentence_end + 1)
            ELSE IF InLast30Percent(last_space, max_length)
                 THEN Slice(text, last_space)
                 ELSE Slice(text, max_length)

smart_truncate_text(text, max_length) ==
    IF TextLen(text) <= max_length THEN text
    ELSE LET truncated == Slice(text, max_length)
             last_sentence_end == LastSentenceEnd(truncated, max_length, 1)
             last_space == rfind(truncated, " ")
         IN IF last_sentence_end > 0
            THEN Slice(text, last_sentence_end + 1)
            ELSE IF InLast30Percent(last_space, max_length)
                 THEN Slice(text, last_space)
                 ELSE Slice(text, max_length)

(* ----------------------------- exceptions ------------------------------- *)
\* an exception: its class, its message as the chain of prefixes the handlers
\* put before str(e) (outermost first), and the numbers the message carries
Exc(c, m, k) == [cls |-> c, msg |-> m, nums |-> k]
NoExc == Exc("None", <<>>, <<>>)

\* raise C(prefix + str(e)) from e
Wrap(c, prefix, e) == Exc(c, <<prefix>> \o e.msg, e.nums)

\* the classes an exception class is an instance of (Python / requests /
\* openai / fastapi class hierarchies)
Bases(c) ==
    CASE c = "ValueError" -> {"ValueError", "Exception"}
      [] c = "RequestException" -> {"RequestException", "Exception"}
      [] c = "HTTPError" -> {"HTTPError", "RequestException", "Exception"}
      [] c = "Timeout" -> {"Timeout", "RequestException", "Exception"}
      [] c = "ReadTimeout" -> {"ReadTimeout", "Timeout", "RequestException", "Exception"}
      [] c = "ConnectionError" -> {"ConnectionError", "RequestException", "Exception"}
      [] c = "ConnectTimeout" ->
            {"ConnectTimeout", "ConnectionError", "Timeout", "RequestException", "Exception"}
      [] c = "TooManyRedirects" -> {"TooManyRedirects", "RequestException", "Exception"}
      [] c = "APIError" -> {"APIError", "Exception"}
      [] c = "RateLimitError" -> {"RateLimitError", "APIError", "Exception"}
      [] c = "APIConnectionError" -> {"APIConnectionError", "APIError", "Exception"}
      [] c = "APITimeoutError" ->
            {"APITimeoutError", "APIConnectionError", "APIError", "Exception"}
      [] c = "AttributeError" -> {"AttributeError", "Exception"}
      [] c = "HTTPException" -> {"HTTPException", "Exception"}
      [] OTHER -> {c}

IsInstance(e, base) == base \in Bases(e.cls)

(* ------------------------------ tenacity -------------------------------- *)
\* @retry(stop=stop_after_attempt(n), retry=retry_if_exception_type(types),
\* reraise=True): what follows attempt number attempt_number that raised e
RetryDecision(e, attempt_number, types, n) ==
    IF ~(\E b \in types : IsInstance(e, b)) THEN "raise"
    ELSE IF attempt_number >= n THEN "raise"
    ELSE "retry"

(* ------------------------------ validate_url ---------------------------- *)
\* urlparse(url): it raises (e.g. "http://[bad"), or yields scheme and netloc
Urls ==
    { [raises |-> FALSE, scheme |-> "https", netloc |-> "example.com"],
      [raises |-> FALSE, scheme |-> "", netloc |-> ""],
      [raises |-> FALSE, scheme |-> "http", netloc |-> ""],
      [raises |-> FALSE, scheme |-> "", netloc |-> "host"],
      [raises |-> TRUE, scheme |-> "", netloc |-> ""] }

\* a plausible slip: only the scheme is required
validate_url_scheme_only(u) ==
    IF u.raises THEN FALSE ELSE u.scheme /= ""

validate_url(u) ==
    IF u.raises THEN FALSE ELSE u.scheme /= "" /\ u.netloc /= ""

(* ------------------------------- fetch_html ----------------------------- *)
\* what requests.get + raise_for_status do on one attempt
TransportFailures ==
    { Exc("HTTPError", <<>>, <<404>>), Exc("HTTPError", <<>>, <<503>>),
      Exc("ReadTimeout", <<>>, <<>>), Exc("ConnectTimeout", <<>>, <<>>),
      Exc("ConnectionError", <<>>, <<>>), Exc("TooManyRedirects", <<>>, <<>>) }

\* the except clauses of fetch_html, in order
fetch_html_except(e) ==
    IF IsInstance(e, "HTTPError") THEN Wrap("HTTPError", "HTTP error", e)
    ELSE IF IsInstance(e, "Timeout") THEN Wrap("Timeout", "page load timeout", e)
    ELSE IF IsInstance(e, "ConnectionError")
         THEN Wrap("ConnectionError", "connection error", e)
    ELSE IF IsInstance(e, "RequestException")
         THEN Wrap("RequestException", "request error", e)
    ELSE e

\* a plausible slip: one attempt too many before giving up
fetch_html_retry_late(e, attempt_number) ==
    RetryDecision(e, attempt_number,
                  {"Timeout", "ConnectionError", "RequestException"},
                  FETCH_MAX_ATTEMPTS + 1)

\* the retry decorator of fetch_html
fetch_html_retry(e, attempt_number) ==
    RetryDecision(e, attempt_number,
                  {"Timeout", "ConnectionError", "RequestException"}, FETCH_MAX_ATTEMPTS)

(* ------------------------- extract_text_from_url ------------------------ *)
CONTENT_TAGS ==
    <<"p", "h1", "h2", "h3", "h4", "h5", "h6", "li", "article", "section",
      "div", "span", "main", "blockquote", "td", "th", "dd", "dt">>

REMOVE_TAGS == <<"script", "style", "nav", "header", "footer", "aside", "noscript">>

\* The parse tree BeautifulSoup(html_content, 'html.parser') builds: a
\* sequence of nodes, each a string or a tag with its own contents.
NavigableString(t) == [name |-> "#text", string |-> t, contents |-> <<>>]
Tag(name, contents) == [name |-> name, string |-> <<>>, contents |-> contents]

\* soup.find_all(tag_name): the tags of that name, in document order
RECURSIVE find_all(_, _)
find_all(contents, tag_name) ==
    IF contents = <<>> THEN <<>>
    ELSE LET node == Head(contents)
         IN (IF node.name = tag_name THEN <<node>> ELSE <<>>)
               \o find_all(node.contents, tag_name)
               \o find_all(Tail(contents), tag_name)

\* for element in soup.find_all(tag_name): element.decompose()
RECURSIVE decompose(_, _)
decompose(contents, tag_name) ==
    IF contents = <<>> THEN <<>>
    ELSE LET node == Head(contents)
             rest == decompose(Tail(contents), tag_name)
         IN IF node.name = tag_name THEN rest
            ELSE <<[node EXCEPT !.contents = decompose(node.contents, tag_name)]>>
                    \o rest

\* lines 179-181: the loop over REMOVE_TAGS
RECURSIVE RemoveTags(_, _)
RemoveTags(contents, tags) ==
    IF tags = <<>> THEN contents
    ELSE RemoveTags(decompose(contents, Head(tags)), Tail(tags))

\* the strings below a node, each stripped, the empty ones left out
RECURSIVE stripped_strings(_)
stripped_strings(contents) ==
    IF contents = <<>> THEN <<>>
    ELSE LET node == Head(contents)
             own == IF node.name = "#text" /\ strip(node.string) /= <<>>
                    THEN <<strip(node.string)>> ELSE <<>>
         IN own \o stripped_strings(node.contents)
                \o stripped_strings(Tail(contents))

\* ' '.join(text_parts)
RECURSIVE JoinParts(_)
JoinParts(parts) ==
    IF parts = <<>> THEN <<>>
    ELSE IF Len(parts) = 1 THEN parts[1]
    ELSE Concat(Concat(parts[1], <<Run(" ", 1)>>), JoinParts(Tail(parts)))

\* re.sub(r'\s+', ' ', text): every run of whitespace becomes one space
RECURSIVE CollapseSpaces(_)
CollapseSpaces(t) ==
    IF t = <<>> THEN <<>>
    ELSE IF Head(t).ch \in Whitespace
         THEN <<Run(" ", 1)>> \o CollapseSpaces(lstrip(t))
         ELSE <<Head(t)>> \o CollapseSpaces(Tail(t))

clean_text(t) == strip(CollapseSpaces(t))

\* text.rsplit(' ', 1)[0]
RsplitSpaceHead(t) == IF rfind(t, " ") < 0 THEN t ELSE Slice(t, rfind(t, " "))

Ellipsis == <<Run(".", 3)>>

\* lines 219-245: from the collected text_parts to the returned text, or the
\* ValueError raised
extract_text_result(text_parts) ==
    LET full_text == JoinParts(text_parts)
        cleaned_text == clean_text(full_text)
    IN IF strip(full_text) = <<>>
       THEN [exc |-> Exc("ValueError", <<"no text extracted from page">>, <<>>),
             text |-> <<>>]
       ELSE IF strip(cleaned_text) = <<>>
       THEN [exc |-> Exc("ValueError", <<"text empty after cleaning">>, <<>>),
             text |-> <<>>]
       ELSE IF TextLen(cleaned_text) > MAX_TEXT_LENGTH
       THEN [exc |-> NoExc,
             text |-> Concat(RsplitSpaceHead(Slice(cleaned_text, MAX_TEXT_LENGTH)),
                             Ellipsis)]
       ELSE [exc |-> NoExc, text |-> cleaned_text]

\* element.get_text(separator=' ', strip=True)
get_text(contents) == JoinParts(stripped_strings(contents))

\* if text and len(text.strip()) > 0
NonBlank(t) == t /= <<>> /\ strip(t) /= <<>>

\* lines 185-191: for each content tag in list order, the text of each of its
\* elements in document order
RECURSIVE ContentParts(_, _)
ContentParts(soup, tags) ==
    IF tags = <<>> THEN <<>>
    ELSE LET elements == find_all(soup, Head(tags))
             texts == [i \in DOMAIN elements |-> get_text(elements[i].contents)]
         IN SelectSeq(texts, NonBlank) \o ContentParts(soup, Tail(tags))

\* lines 196-206: the text of the first body element, if there is one
BodyParts(soup) ==
    LET found == find_all(soup, "body")
    IN IF found = <<>> THEN <<>>
       ELSE SelectSeq(<<get_text(found[1].contents)>>, NonBlank)

\* lines 210-216: the text of the whole document
DocumentParts(soup) == SelectSeq(<<get_text(soup)>>, NonBlank)

\* lines 176-216: text_parts as collected from the parse tree
collect_text_parts(parsed) ==
    LET soup == RemoveTags(parsed, REMOVE_TAGS)
    IN IF ContentParts(soup, CONTENT_TAGS) /= <<>>
       THEN ContentParts(soup, CONTENT_TAGS)
       ELSE IF BodyParts(soup) /= <<>> THEN BodyParts(soup)
       ELSE DocumentParts(soup)

(* ----------------------- get_questions_from_text ------------------------ *)
Digits == {"0", "1", "2", "3", "4", "5", "6", "7", "8", "9"}
ListMarkers == {"-", "*", "U+2022"}

\* text[k:] for k >= 0
RECURSIVE SliceFrom(_, _)
SliceFrom(t, k) ==
    IF t = <<>> \/ k <= 0 THEN t
    ELSE IF Head(t).n > k THEN <<Run(Head(t).ch, Head(t).n - k)>> \o Tail(t)
         ELSE SliceFrom(Tail(t), k - Head(t).n)

\* text.find(c): the lowest index holding c, -1 when there is none
RECURSIVE find(_, _)
find(t, c) ==
    IF t = <<>> THEN -1
    ELSE IF Head(t).ch = c THEN 0
         ELSE LET r == find(Tail(t), c) IN IF r < 0 THEN -1 ELSE Head(t).n + r

\* text.split('\n')
RECURSIVE SplitLines(_)
SplitLines(t) ==
    LET k == find(t, "\n")
    IN IF k < 0 THEN <<t>>
       ELSE <<Slice(t, k)>> \o SplitLines(SliceFrom(t, k + 1))

\* text.lstrip('-*•')
RECURSIVE LstripMarkers(_)
LstripMarkers(t) ==
    IF t /= <<>> /\ Head(t).ch \in ListMarkers THEN LstripMarkers(Tail(t)) ELSE t

\* [line.strip() for line in result_text.split('\n') if line.strip()]
RECURSIVE StripNonBlank(_)
StripNonBlank(lines) ==
    IF lines = <<>> THEN <<>>
    ELSE IF strip(Head(lines)) = <<>> THEN StripNonBlank(Tail(lines))
         ELSE <<strip(Head(lines))>> \o StripNonBlank(Tail(lines))

\* the body of the primary loop, lines 139-149
CleanLine(line) ==
    LET k == find(line, ".")
        unnumbered == IF line /= <<>> /\ Head(line).ch \in Digits /\ k >= 0
                      THEN strip(SliceFrom(line, k + 1)) ELSE line
    IN IF unnumbered /= <<>> /\ Head(unnumbered).ch \in ListMarkers
       THEN strip(SliceFrom(unnumbered, 1)) ELSE unnumbered

\* q.split('.', 1)[-1].strip().lstrip('-*•').strip(), line 161
LooseCleanLine(q) ==
    LET k == find(q, ".")
        last == IF k >= 0 THEN SliceFrom(q, k + 1) ELSE q
    IN strip(LstripMarkers(strip(last)))

LongEnough(q) == q /= <<>> /\ TextLen(q) > MIN_QUESTION_LENGTH

RECURSIVE MapClean(_, _)
MapClean(lines, loose) ==
    IF lines = <<>> THEN <<>>
    ELSE <<IF loose THEN LooseCleanLine(Head(lines)) ELSE CleanLine(Head(lines))>>
         \o MapClean(Tail(lines), loose)

\* lines 130-176: from the completion's message content to the list returned
parse_questions(message_content) ==
    LET result_text == strip(message_content)
        all_lines == StripNonBlank(SplitLines(result_text))
        primary == SelectSeq(MapClean(all_lines, FALSE), LongEnough)
        fallback == SelectSeq(MapClean(SelectSeq(all_lines, LongEnough), TRUE),
                              LongEnough)
        questions == IF Len(primary) < MAX_QUESTIONS THEN fallback ELSE primary
    IN SubSeq(questions, 1, IF Len(questions) < MAX_QUESTIONS
                            THEN Len(questions) ELSE MAX_QUESTIONS)

\* what client.chat.completions.create does on one attempt: it raises, or
\* returns a response with or without choices and with a message content
Contents ==
    { <<>>,
      <<Run(" ", 2), Run("\n", 1)>>,
      <<Run("o", 1), Run("k", 1)>>,
      <<Run("1", 1), Run(".", 1), Run(" ", 1), Run("W", 4), Run("?", 1), Run("\n", 1),
        Run("2", 1), Run(".", 1), Run(" ", 1), Run("X", 5), Run("?", 1), Run("\n", 1),
        Run("-", 1), Run(" ", 1), Run("Y", 6), Run("?", 1), Run("\n", 1),
        Run("*", 1), Run(" ", 1), Run("Z", 7), Run("?", 1), Run("\n", 1),
        Run("U+2022", 1), Run(" ", 1), Run("V", 8), Run("?", 1), Run("\n", 1),
        Run("T", 9), Run("?", 1)>>,
      <<Run("W", 4), Run("?", 1), Run("\n", 2), Run("X", 5), Run("?", 1)>> }

ProviderFailures ==
    { Exc("RateLimitError", <<>>, <<>>), Exc("APIConnectionError", <<>>, <<>>),
      Exc("APITimeoutError", <<>>, <<>>), Exc("APIError", <<>>, <<>>),
      Exc("AttributeError", <<>>, <<>>) }

Responses ==
    { [exc |-> e, choices |-> FALSE, content |-> <<>>] : e \in ProviderFailures }
    \cup { [exc |-> NoExc, choices |-> FALSE, content |-> <<>>] }
    \cup { [exc |-> NoExc, choices |-> TRUE, content |-> c] : c \in Contents }

\* the except clauses of get_questions_from_text, in order
get_questions_except(e) ==
    IF IsInstance(e, "RateLimitError") THEN Wrap("Exception", "rate limit exceeded", e)
    ELSE IF IsInstance(e, "APIConnectionError")
         THEN Wrap("Exception", "API connection error", e)
    ELSE IF IsInstance(e, "APITimeoutError") THEN Wrap("Exception", "API timeout", e)
    ELSE IF IsInstance(e, "APIError") THEN Wrap("Exception", "API error", e)
    ELSE IF IsInstance(e, "Exception") THEN Wrap("Exception", "unexpected API error", e)
    ELSE e

\* one run of the body of get_questions_from_text: whether the completion
\* request was issued, the exception raised (NoExc: none), the list returned
get_questions_body(cl, t, resp) ==
    IF ~cl
    THEN [requested |-> FALSE, questions |-> <<>>,
          exc |-> Exc("ValueError", <<"API key not configured">>, <<>>)]
    ELSE IF t = <<>> \/ strip(t) = <<>>
    THEN [requested |-> FALSE, questions |-> <<>>,
          exc |-> Exc("ValueError", <<"text must not be empty">>, <<>>)]
    ELSE IF resp.exc /= NoExc
    THEN [requested |-> TRUE, questions |-> <<>>, exc |-> get_questions_except(resp.exc)]
    ELSE IF ~resp.choices
    THEN [requested |-> TRUE, questions |-> <<>>,
          exc |-> get_questions_except(Exc("ValueError", <<"response without choices">>, <<>>))]
    ELSE IF resp.content = <<>> \/ strip(resp.content) = <<>>
    THEN [requested |-> TRUE, questions |-> <<>>,
          exc |-> get_questions_except(Exc("ValueError", <<"empty content">>, <<>>))]
    ELSE [requested |-> TRUE, questions |-> parse_questions(resp.content), exc |-> NoExc]

\* a plausible slip: one attempt too many before giving up
get_questions_retry_late(e, attempt_number) ==
    RetryDecision(e, attempt_number, {"Exception"}, GEN_MAX_ATTEMPTS + 1)

\* the retry decorator of get_questions_from_text
get_questions_retry(e, attempt_number) ==
    RetryDecision(e, attempt_number, {"Exception"}, GEN_MAX_ATTEMPTS)

(* ---------------------- generate_questions_from_url --------------------- *)
\* the handlers around extract_text_from_url, lines 323-330
extract_except(e) ==
    IF IsInstance(e, "ValueError") THEN Wrap("ValueError", "text extraction error", e)
    ELSE IF IsInstance(e, "RequestException")
         THEN Wrap("RequestException", "network error loading page", e)
    ELSE e

\* the handlers around get_questions_from_text, lines 361-368
generate_except(e) ==
    IF IsInstance(e, "ValueError") THEN Wrap("ValueError", "OpenAI validation error", e)
    ELSE IF IsInstance(e, "Exception") THEN Wrap("Exception", "OpenAI API error", e)
    ELSE e

\* the outer handlers, lines 370-380
agent_except(e) ==
    IF IsInstance(e, "ValueError") THEN e
    ELSE IF IsInstance(e, "RequestException") THEN e
    ELSE IF IsInstance(e, "Exception") THEN Wrap("Exception", "unexpected agent error", e)
    ELSE e

\* a plausible slip: only the emptiness of the text is checked
insufficient_text_empty_only(t) == t = <<>>

\* the condition of the length gate, line 334
insufficient_text(t) == t = <<>> \/ TextLen(strip(t)) < MIN_TEXT_LENGTH

\* the ValueError of lines 335-340
insufficient_text_error(t) ==
    Exc("ValueError", <<"not enough text on page">>,
        <<MIN_TEXT_LENGTH, IF t = <<>> THEN 0 ELSE TextLen(strip(t))>>)

(* --------------------------- generate_questions ------------------------- *)
\* the status the endpoint answers with when generate_questions_from_url
\* raised e, main.py lines 129-181
status_of_exception(e) ==
    IF IsInstance(e, "ValueError") THEN 400
    ELSE IF IsInstance(e, "HTTPError") THEN 400
    ELSE IF IsInstance(e, "Timeout") THEN 408
    ELSE IF IsInstance(e, "ConnectionError") THEN 503
    ELSE IF IsInstance(e, "RequestException") THEN 503
    ELSE 500

\* the status answered when generate_questions_from_url returned qs
status_of_result(qs) ==
    IF qs = <<>> THEN status_of_exception(Exc("HTTPException", <<"no questions">>, <<500>>))
    ELSE 200

(* ------------------------------- state ---------------------------------- *)
VARIABLES
    pc,                 \* position of the request in the pipeline
    client,             \* openai_module.client is not None
    url,                \* request.url, as urlparse sees it
    attempt_number,     \* attempt of fetch_html under way (tenacity)
    get_count,          \* requests.get calls issued in this run
    fetch_log,          \* class raised by each fetch_html attempt, "ok" if none
    fetch_raised,       \* exception that left fetch_html
    html_content,       \* the text fragments the fetched page yields
    extracted_text,     \* text returned by extract_text_from_url
    text,               \* text in generate_questions_from_url
    truncate_calls,     \* calls of smart_truncate_text in this run
    gen_attempt_number, \* attempt of get_questions_from_text under way
    completion_requests,\* the text embedded in each completion request issued
    gen_log,            \* exception raised by each get_questions attempt
    gen_raised,         \* exception that left get_questions_from_text
    questions,          \* list returned by generate_questions_from_url
    raised,             \* exception that left generate_questions_from_url
    status_code,        \* status the endpoint answered with, 0 before
    t_pc, t_text, t_max_length, t_result, t_again,
                        \* smart_truncate_text called on its own
    p_pc, p_lines, p_content, p_result,
                        \* the parse of one completion: the lines of the
                        \* message content, the content, what the call gave
    d_pc,               \* position of an extraction from a parse tree
    d_soup,             \* the parse tree of the page
    d_text_parts,       \* text_parts as collected
    d_result            \* what extract_text_from_url returned or raised
                        \* the extraction from one parsed document

run_vars == <<url, attempt_number, get_count, fetch_log, fetch_raised, html_content,
              extracted_text, text, truncate_calls, gen_attempt_number,
              completion_requests, gen_log, gen_raised, questions, raised,
              status_code>>
t_vars == <<t_pc, t_text, t_max_length, t_result, t_again>>
p_vars == <<p_pc, p_lines, p_content, p_result>>
d_vars == <<d_pc, d_soup, d_text_parts, d_result>>
vars == <<pc, client, run_vars, t_vars, p_vars, d_vars>>

NoUrl == [raises |-> FALSE, scheme |-> "", netloc |-> ""]

\* pages, each given by the fragments the tag scan of lines 176-216 collects
Pages ==
    { <<>>,
      << <<Run("a", 30)>> >>,
      << <<Run("a", 49)>> >>,
      << <<Run("a", 20), Run("\n", 1), Run(" ", 3), Run("a", 29)>> >>,
      << <<Run("a", 40)>>, <<Run("b", 40)>> >>,
      << <<Run("a", 7500), Run(".", 1), Run("a", 1499)>> >>,
      << <<Run("a", 5600), Run(".", 1), Run("a", 3000)>> >>,
      << <<Run("a", 5600), Run(" ", 1), Run("a", 3000)>> >>,
      << <<Run("a", 6000), Run(" ", 1), Run("a", 3000)>> >>,
      << <<Run("a", 8500), Run(".", 1), Run("a", 500)>> >>,
      << <<Run("a", 9990), Run(" ", 1), Run("a", 20)>> >> }

RunStart ==
    /\ attempt_number = 0 /\ get_count = 0 /\ fetch_log = <<>>
    /\ fetch_raised = NoExc /\ html_content = <<>> /\ extracted_text = <<>>
    /\ text = <<>> /\ truncate_calls = 0 /\ gen_attempt_number = 0
    /\ completion_requests = <<>> /\ gen_log = <<>> /\ gen_raised = NoExc
    /\ questions = <<>> /\ raised = NoExc /\ status_code = 0

TruncIdle ==
    /\ t_pc = "off" /\ t_text = <<>> /\ t_max_length = 0
    /\ t_result = <<>> /\ t_again = <<>>

ParseIdle ==
    /\ p_pc = "off" /\ p_lines = <<>> /\ p_content = <<>>
    /\ p_result = [requested |-> FALSE, questions |-> <<>>, exc |-> NoExc]

ExtractIdle ==
    /\ d_pc = "off" /\ d_soup = <<>> /\ d_text_parts = <<>>
    /\ d_result = [exc |-> NoExc, text |-> <<>>]

Init ==
    /\ pc = "idle"
    /\ client \in BOOLEAN
    /\ url = NoUrl
    /\ RunStart
    /\ TruncIdle
    /\ ParseIdle
    /\ ExtractIdle

(* ------------------------------ actions --------------------------------- *)
\* POST /generate-questions arrives: generate_questions calls
\* generate_questions_from_url, which calls extract_text_from_url, which
\* calls fetch_html
generate_questions(u) ==
    /\ pc \in {"idle", "done"}
    /\ pc' = "fetch"
    /\ url' = u
    /\ attempt_number' = 1
    /\ get_count' = 0 /\ fetch_log' = <<>> /\ fetch_raised' = NoExc
    /\ html_content' = <<>> /\ extracted_text' = <<>> /\ text' = <<>>
    /\ truncate_calls' = 0 /\ gen_attempt_number' = 0
    /\ completion_requests' = <<>> /\ gen_log' = <<>> /\ gen_raised' = NoExc
    /\ questions' = <<>> /\ raised' = NoExc /\ status_code' = 0
    /\ UNCHANGED <<client, t_vars, p_vars,
                   d_vars>>

\* fetch_html raised e on this attempt: tenacity retries or re-raises, and a
\* re-raised e passes extract_text_from_url and the handlers of the agent
FetchRaises(e) ==
    /\ fetch_log' = Append(fetch_log, e.cls)
    /\ IF fetch_html_retry(e, attempt_number) = "retry"
       THEN /\ attempt_number' = attempt_number + 1
            /\ UNCHANGED <<pc, fetch_raised, raised>>
       ELSE /\ pc' = "respond"
            /\ fetch_raised' = e
            /\ raised' = agent_except(extract_except(e))
            /\ UNCHANGED attempt_number
    /\ UNCHANGED html_content

\* one attempt of fetch_html
fetch_html ==
    /\ pc = "fetch"
    /\ IF ~validate_url(url)
       THEN /\ FetchRaises(Exc("ValueError", <<"invalid URL">>, <<>>))
            /\ UNCHANGED get_count
       ELSE /\ get_count' = get_count + 1
            /\ \/ \E e \in TransportFailures : FetchRaises(fetch_html_except(e))
               \/ \E page \in Pages :
                    /\ html_content' = page
                    /\ fetch_log' = Append(fetch_log, "ok")
                    /\ pc' = "extract"
                    /\ UNCHANGED <<attempt_number, fetch_raised, raised>>
    /\ UNCHANGED <<client, url, extracted_text, text, truncate_calls,
                   gen_attempt_number, completion_requests, gen_log, gen_raised,
                   questions, status_code, t_vars, p_vars,
                   d_vars>>

\* the rest of extract_text_from_url, after fetch_html returned
extract_text_from_url ==
    /\ pc = "extract"
    /\ LET r == extract_text_result(html_content)
       IN IF r.exc /= NoExc
          THEN /\ pc' = "respond"
               /\ raised' = agent_except(extract_except(r.exc))
               /\ UNCHANGED <<extracted_text, text>>
          ELSE /\ pc' = "check"
               /\ extracted_text' = r.text
               /\ text' = r.text
               /\ UNCHANGED raised
    /\ UNCHANGED <<client, url, attempt_number, get_count, fetch_log, fetch_raised,
                   html_content, truncate_calls, gen_attempt_number,
                   completion_requests, gen_log, gen_raised, questions,
                   status_code, t_vars, p_vars,
                   d_vars>>

\* step 2 of generate_questions_from_url: the length gate
check_text_length ==
    /\ pc = "check"
    /\ IF insufficient_text(text)
       THEN /\ pc' = "respond"
            /\ raised' = agent_except(insufficient_text_error(text))
       ELSE /\ pc' = "truncate"
            /\ UNCHANGED raised
    /\ UNCHANGED <<client, url, attempt_number, get_count, fetch_log, fetch_raised,
                   html_content, extracted_text, text, truncate_calls,
                   gen_attempt_number, completion_requests, gen_log, gen_raised,
                   questions, status_code, t_vars, p_vars,
                   d_vars>>

\* step 3 of generate_questions_from_url: truncation when over the cap
truncate_text ==
    /\ pc = "truncate"
    /\ pc' = "generate"
    /\ gen_attempt_number' = 1
    /\ IF TextLen(text) > MAX_TEXT_LENGTH_FOR_OPENAI
       THEN /\ text' = smart_truncate_text(text, MAX_TEXT_LENGTH_FOR_OPENAI)
            /\ truncate_calls' = truncate_calls + 1
       ELSE UNCHANGED <<text, truncate_calls>>
    /\ UNCHANGED <<client, url, attempt_number, get_count, fetch_log, fetch_raised,
                   html_content, extracted_text, completion_requests, gen_log,
                   gen_raised, questions, raised, status_code, t_vars, p_vars,
                   d_vars>>

\* step 4: one attempt of get_questions_from_text
get_questions_from_text ==
    /\ pc = "generate"
    /\ \E resp \in Responses :
         LET r == get_questions_body(client, text, resp)
         IN /\ completion_requests' =
                 IF r.requested THEN Append(completion_requests, text)
                 ELSE completion_requests
            /\ gen_log' = Append(gen_log, r.exc)
            /\ IF r.exc = NoExc
               THEN /\ pc' = "respond"
                    /\ questions' = r.questions
                    /\ UNCHANGED <<gen_attempt_number, gen_raised, raised>>
               ELSE IF get_questions_retry(r.exc, gen_attempt_number) = "retry"
               THEN /\ gen_attempt_number' = gen_attempt_number + 1
                    /\ UNCHANGED <<pc, questions, gen_raised, raised>>
               ELSE /\ pc' = "respond"
                    /\ gen_raised' = r.exc
                    /\ raised' = agent_except(generate_except(r.exc))
                    /\ UNCHANGED <<gen_attempt_number, questions>>
    /\ UNCHANGED <<client, url, attempt_number, get_count, fetch_log, fetch_raised,
                   html_content, extracted_text, text, truncate_calls,
                   status_code, t_vars, p_vars,
                   d_vars>>

\* generate_questions answers: the list, or the status of its except clause
generate_questions_respond ==
    /\ pc = "respond"
    /\ pc' = "done"
    /\ status_code' = IF raised /= NoExc THEN status_of_exception(raised)
                      ELSE status_of_result(questions)
    /\ UNCHANGED <<client, url, attempt_number, get_count, fetch_log, fetch_raised,
                   html_content, extracted_text, text, truncate_calls,
                   gen_attempt_number, completion_requests, gen_log, gen_raised,
                   questions, raised, t_vars, p_vars,
                   d_vars>>

Next ==
    \/ \E u \in Urls : generate_questions(u)
    \/ fetch_html
    \/ extract_text_from_url
    \/ check_text_length
    \/ truncate_text
    \/ get_questions_from_text
    \/ generate_questions_respond

Spec == Init /\ [][Next]_vars

(* -------------------- smart_truncate_text on its own -------------------- *)
TruncAlphabet == {"a", ".", "U+FF1F", " "}
RunLengths == {1, 7, 63}
TruncRuns == {Run(c, k) : c \in TruncAlphabet, k \in RunLengths}

\* the texts of at most MaxRuns runs
SmallTexts ==
    {t \in UNION {[1..k -> TruncRuns] : k \in 0..MaxRuns} : Norm(t) = t}

\* the values of max_length: the small ones, and one whose product with 0.7
\* is rounded down by the double multiplication
MaxLengths == (0..MaxCap) \cup {90}

InitTrunc ==
    /\ pc = "idle" /\ client = FALSE /\ url = NoUrl /\ RunStart
    /\ t_pc = "input"
    /\ t_text \in SmallTexts
    /\ t_max_length \in MaxLengths
    /\ t_result = <<>> /\ t_again = <<>>
    /\ ParseIdle
    /\ ExtractIdle

truncate_once ==
    /\ t_pc = "input"
    /\ t_pc' = "once"
    /\ t_result' = smart_truncate_text(t_text, t_max_length)
    /\ UNCHANGED <<pc, client, run_vars, t_text, t_max_length, t_again, p_vars, d_vars>>

truncate_again ==
    /\ t_pc = "once"
    /\ t_pc' = "twice"
    /\ t_again' = smart_truncate_text(t_result, t_max_length)
    /\ UNCHANGED <<pc, client, run_vars, t_text, t_max_length, t_result, p_vars, d_vars>>

NextTrunc == truncate_once \/ truncate_again

SpecTrunc == InitTrunc /\ [][NextTrunc]_vars

(* ------------------- the parse of a completion on its own --------------- *)
\* lines a completion may hold: numbered, marked with a hyphen or a bullet,
\* plain (two of them), too short, with a period inside, starting with a digit and holding
\* a period further on, blank
LineChoices ==
    { <<Run("1", 1), Run(".", 1), Run(" ", 1), Run("W", 4), Run("?", 1)>>,
      <<Run("-", 1), Run(" ", 1), Run("Y", 5), Run("?", 1)>>,
      <<Run("U+2022", 1), Run("Z", 6), Run("?", 1)>>,
      <<Run("o", 1), Run("k", 1)>>,
      <<Run("A", 2), Run(".", 1), Run("C", 5), Run("?", 1)>>,
      <<Run("5", 1), Run("G", 1), Run(" ", 1), Run("a", 1), Run(".", 1),
        Run("B", 4), Run("?", 1)>>,
      <<Run("Q", 4), Run("?", 1)>>,
      <<Run(" ", 2)>> }

\* '\n'.join(lines)
RECURSIVE JoinLines(_)
JoinLines(lines) ==
    IF lines = <<>> THEN <<>>
    ELSE IF Len(lines) = 1 THEN lines[1]
    ELSE Concat(Concat(lines[1], <<Run("\n", 1)>>), JoinLines(Tail(lines)))

\* a text long enough to pass for the text of a page
SampleText == <<Run("a", MIN_TEXT_LENGTH)>>

InitParse ==
    /\ pc = "idle" /\ client = TRUE /\ url = NoUrl /\ RunStart
    /\ TruncIdle
    /\ ExtractIdle
    /\ p_pc = "response"
    /\ p_lines \in UNION {[1..k -> LineChoices] : k \in 0..MaxLines}
    /\ p_content = JoinLines(p_lines)
    /\ p_result = [requested |-> FALSE, questions |-> <<>>, exc |-> NoExc]

\* one attempt of get_questions_from_text whose completion request returns
\* one choice, with p_content as its message content
parse_completion ==
    /\ p_pc = "response"
    /\ p_pc' = "returned"
    /\ p_result' = get_questions_body(client, SampleText,
                       [exc |-> NoExc, choices |-> TRUE, content |-> p_content])
    /\ UNCHANGED <<pc, client, run_vars, t_vars, p_lines, p_content, d_vars>>

NextParse == parse_completion

SpecParse == InitParse /\ [][NextParse]_vars

(* ------------------ the extraction from a page on its own --------------- *)
\* nesting depth of the tags of a page
MaxDepth == 2

\* tag names a page uses: two content tags (p comes before div in
\* CONTENT_TAGS), a noise tag, and body
PageTags == {"div", "p", "nav", "body"}

\* strings a page holds: a word, words two spaces apart, whitespace only
PageStrings ==
    { <<Run("a", 1)>>,
      <<Run("b", 1), Run(" ", 2), Run("c", 1)>>,
      <<Run(" ", 1)>> }

\* nodes whose tags nest at most depth deep, each tag holding at most one node
RECURSIVE PageNodes(_)
PageNodes(depth) ==
    { NavigableString(t) : t \in PageStrings } \cup
    ( IF depth = 0 THEN {}
      ELSE { Tag(n, c) : n \in PageTags,
                         c \in {<<>>} \cup { <<k>> : k \in PageNodes(depth - 1) } } )

\* parse trees of at most two top-level nodes
ParseTrees ==
    {<<>>} \cup { <<n>> : n \in PageNodes(MaxDepth) }
           \cup { <<n, m>> : n \in PageNodes(MaxDepth), m \in PageNodes(MaxDepth) }

InitExtract ==
    /\ pc = "idle" /\ client = TRUE /\ url = NoUrl
    /\ RunStart /\ TruncIdle /\ ParseIdle
    /\ d_pc = "parsed"
    /\ d_soup \in ParseTrees
    /\ d_text_parts = <<>>
    /\ d_result = [exc |-> NoExc, text |-> <<>>]

\* extract_text_from_url from the parse tree on (lines 178-245)
extract_text ==
    /\ d_pc = "parsed"
    /\ d_pc' = "returned"
    /\ d_text_parts' = collect_text_parts(d_soup)
    /\ d_result' = extract_text_result(collect_text_parts(d_soup))
    /\ UNCHANGED <<pc, client, run_vars, t_vars, p_vars, d_soup>>

NextExtract == extract_text

SpecExtract == InitExtract /\ [][NextExtract]_vars

(* ------------------------------- claims --------------------------------- *)
\* classes of the transport-level failures fetch_html raises
TransientClasses == {"Timeout", "ConnectionError", "RequestException"}

InvalidUrl(u) == u.raises \/ u.scheme = "" \/ u.netloc = ""

Last(q) == q[Len(q)]

\* C1: an HTTP-status failure of the page request is never retried: it is the
\* last attempt of fetch_html and the failure that leaves it; an attempt that
\* is followed by another one failed with a transport-level failure.
C1_StatusFailureNotRetried ==
    \A i \in DOMAIN fetch_log :
        /\ fetch_log[i] = "HTTPError" =>
              i = Len(fetch_log) /\ pc /= "fetch" /\ fetch_raised.cls = "HTTPError"
        /\ i < Len(fetch_log) => fetch_log[i] \in TransientClasses

\* C2: an Invalid-Input failure of get_questions_from_text (no credential,
\* blank text) is never retried: the call ends with that ValueError after
\* exactly one attempt.
C2_InvalidInputNotRetried ==
    \A i \in DOMAIN gen_log :
        gen_log[i].cls = "ValueError" =>
            /\ Len(gen_log) = 1
            /\ gen_attempt_number = 1
            /\ pc /= "generate"
            /\ gen_raised = gen_log[1]

\* C3: the endpoint answers by failure category: a fetch that ended in a
\* timeout with 408, in a connection or other network failure with 503, an
\* Invalid-Input failure (url, credential) with 400, a generation failure
\* with 500.
C3_StatusByCategory ==
    pc = "done" =>
        /\ fetch_raised.cls = "Timeout" => status_code = 408
        /\ fetch_raised.cls \in {"ConnectionError", "RequestException"} =>
              status_code = 503
        /\ (fetch_raised.cls = "ValueError" \/ gen_raised.cls = "ValueError") =>
              status_code = 400
        /\ gen_raised.cls = "Exception" => status_code = 500

\* C4: fetch_html makes at most 3 GET attempts and retries only after a
\* transient transport failure; two transient failures then a success give a
\* success after exactly 3 attempts; 3 transient failures give a failure of
\* the kind of the last attempt after exactly 3 attempts.
C4_FetchRetryBudget ==
    /\ get_count <= 3 /\ Len(fetch_log) <= 3
    /\ \A i \in DOMAIN fetch_log :
          i < Len(fetch_log) => fetch_log[i] \in TransientClasses
    /\ (Len(fetch_log) = 3 /\ fetch_log[3] = "ok") =>
          get_count = 3 /\ fetch_raised = NoExc /\ pc /= "fetch"
    /\ (Len(fetch_log) = 3 /\ fetch_log[3] \in TransientClasses) =>
          get_count = 3 /\ fetch_raised.cls = fetch_log[3] /\ pc /= "fetch"

\* C5: for a url without scheme or network location (or that urlparse
\* rejects) validate_url returns false without raising, and fetch_html fails
\* with a ValueError on its first attempt, with no GET and no second attempt.
C5_InvalidUrlFailsFast ==
    (pc /= "idle" /\ InvalidUrl(url)) =>
        /\ validate_url(url) = FALSE
        /\ get_count = 0
        /\ pc = "fetch" => fetch_log = <<>> /\ attempt_number = 1
        /\ pc /= "fetch" =>
              /\ fetch_log = <<"ValueError">>
              /\ attempt_number = 1
              /\ fetch_raised.cls = "ValueError"
              /\ raised.cls = "ValueError"
              /\ pc \in {"respond", "done"}

C5_Witness ==
    /\ pc = "done" /\ url.raises
    /\ fetch_log = <<"ValueError">> /\ get_count = 0 /\ status_code = 400

\* C6: with a credential and a non-blank text, one call of
\* get_questions_from_text issues one completion request per attempt and at
\* most 3; a failed attempt before the third is followed by another attempt,
\* the first attempt that yields a list ends the call, and after 3 failed
\* attempts the failure of the third is the one raised.
C6_SharedRetryBudget ==
    (client /\ gen_log /= <<>>) =>
        /\ Len(completion_requests) = Len(gen_log)
        /\ Len(gen_log) <= 3
        /\ \A i \in DOMAIN gen_log : i < Len(gen_log) => gen_log[i] /= NoExc
        /\ Last(gen_log) = NoExc => pc /= "generate" /\ gen_raised = NoExc
        /\ (Last(gen_log) /= NoExc /\ Len(gen_log) < 3) =>
              pc = "generate" /\ gen_attempt_number = Len(gen_log) + 1
                              /\ gen_raised = NoExc
        /\ (Last(gen_log) /= NoExc /\ Len(gen_log) = 3) =>
              pc /= "generate" /\ gen_raised = gen_log[3]

C6_Witness ==
    /\ pc = "done" /\ client
    /\ Len(completion_requests) = 3
    /\ gen_log[1].msg = <<"rate limit exceeded">>
    /\ gen_log[2].msg = <<"unexpected API error", "response without choices">>
    /\ gen_raised.msg = <<"unexpected API error", "empty content">>

\* C7: when the extracted text has trimmed length below 50 the run fails with
\* a ValueError whose message carries 50 and the trimmed length, without any
\* call of the truncator or of the generator and without any further step.
C7_InsufficientText ==
    (extracted_text /= <<>> /\ TextLen(strip(extracted_text)) < 50 /\ pc /= "check") =>
        /\ pc \in {"respond", "done"}
        /\ raised.cls = "ValueError"
        /\ raised.nums = <<50, TextLen(strip(extracted_text))>>
        /\ truncate_calls = 0
        /\ gen_log = <<>> /\ completion_requests = <<>>
        /\ get_count = Len(fetch_log)

C7_Witness ==
    /\ pc = "done" /\ TextLen(extracted_text) = 30
    /\ raised.nums = <<50, 30>> /\ status_code = 400

\* C8: whenever a completion request is issued a credential is configured,
\* the page fetch and the extraction have succeeded in this run, and the
\* text in the request has trimmed length >= 50 and length <= 8000.
C8_CompletionRequestPreconditions ==
    \A i \in DOMAIN completion_requests :
        /\ client
        /\ fetch_log /= <<>> /\ Last(fetch_log) = "ok" /\ fetch_raised = NoExc
        /\ extracted_text /= <<>>
        /\ TextLen(strip(completion_requests[i])) >= 50
        /\ TextLen(completion_requests[i]) <= 8000

C8_Witness ==
    /\ completion_requests /= <<>>
    /\ truncate_calls = 1
    /\ TextLen(extracted_text) = 9001
    /\ TextLen(completion_requests[1]) = 8000

\* the indices of the prefix text[:max_length] at or after 0.7 * max_length
\* that hold one of the characters cs
WindowIndices(t, max_length, cs) ==
    {i \in 0..(max_length - 1) :
        i < TextLen(t) /\ 10 * i >= 7 * max_length /\ CharAt(t, i) \in cs}

SetMax(S) == CHOOSE x \in S : \A y \in S : y <= x

\* r is text[:k]
IsCutAt(r, t, k) == TextLen(r) = k /\ IsPrefix(r, t)

SentenceEndingSet == {sentence_endings[k] : k \in DOMAIN sentence_endings}

\* C9: for len(text) > maxLength the result is the text cut just after the
\* rightmost sentence delimiter of the prefix at an index >= 0.7 * maxLength,
\* else cut at the rightmost space at such an index, else the first maxLength
\* characters; an index equal to 0.7 * maxLength is inside the window.
C9_ThreeOutcomes ==
    (t_pc \in {"once", "twice"} /\ TextLen(t_text) > t_max_length) =>
        LET ends == WindowIndices(t_text, t_max_length, SentenceEndingSet)
            spaces == WindowIndices(t_text, t_max_length, {" "})
        IN IF ends /= {} THEN IsCutAt(t_result, t_text, SetMax(ends) + 1)
           ELSE IF spaces /= {} THEN IsCutAt(t_result, t_text, SetMax(spaces))
           ELSE IsCutAt(t_result, t_text, t_max_length)

\* C10: smart_truncate_text returns a prefix of the text of length at most
\* maxLength, the text itself when len(text) <= maxLength, and truncating the
\* result again with the same maxLength returns it unchanged.
C10_PrefixBoundedIdempotent ==
    t_pc \in {"once", "twice"} =>
        /\ IsPrefix(t_result, t_text)
        /\ TextLen(t_result) <= t_max_length
        /\ TextLen(t_text) <= t_max_length => t_result = t_text
        /\ t_pc = "twice" => t_again = t_result

C10_Witness ==
    /\ t_pc = "twice"
    /\ TextLen(t_text) > t_max_length
    /\ 0 < TextLen(t_result) /\ TextLen(t_result) < t_max_length
    /\ t_again = t_result

\* C16: in one run every page GET precedes the first completion request, at
\* most 3 GETs and at most 3 completion requests are made, and an attempt of
\* the generator, failed or not, is never followed by another GET or another
\* extraction: the two retry loops run one after the other.
C16_SequentialRetryLoops ==
    /\ [](get_count <= 3 /\ Len(completion_requests) <= 3)
    /\ [](gen_log /= <<>> => pc \in {"generate", "respond", "done"})
    /\ [][ /\ get_count' > get_count => completion_requests' = <<>> /\ gen_log' = <<>>
           /\ Len(gen_log') > Len(gen_log) =>
                 /\ get_count' = get_count
                 /\ fetch_log' = fetch_log
                 /\ html_content' = html_content
                 /\ extracted_text' = extracted_text
                 /\ pc' \in {"generate", "respond"} ]_vars

C16_Witness ==
    /\ pc = "done"
    /\ get_count = 3 /\ Last(fetch_log) = "ok"
    /\ Len(completion_requests) = 3 /\ gen_raised /= NoExc

\* the number of digits a line starts with
RECURSIVE LeadingDigits(_)
LeadingDigits(t) ==
    IF t /= <<>> /\ Head(t).ch \in Digits THEN Head(t).n + LeadingDigits(Tail(t)) ELSE 0

\* the length of the "N." prefix of a line, 0 when it has none
NumberPrefixLen(line) ==
    LET k == LeadingDigits(line)
    IN IF k > 0 /\ k < TextLen(line) /\ CharAt(line, k) = "." THEN k + 1 ELSE 0

\* a trimmed line without its "N." prefix and then without one list marker
NumberedClean(line) ==
    LET k == NumberPrefixLen(line)
        a == IF k > 0 THEN strip(SliceFrom(line, k)) ELSE line
    IN IF a /= <<>> /\ Head(a).ch \in ListMarkers THEN strip(SliceFrom(a, 1)) ELSE a

\* the non-blank lines of the response, trimmed
TrimmedLines == SelectSeq([i \in DOMAIN p_lines |-> strip(p_lines[i])],
                          LAMBDA l : l /= <<>>)

FirstFive(q) == SubSeq(q, 1, IF Len(q) < 5 THEN Len(q) ELSE 5)

\* C11: a list returned by get_questions_from_text has at most 5 elements,
\* each longer than 3 characters, and no more elements than the response has
\* lines; a response of k < 5 valid question lines is returned without failure
\* as exactly those k questions, in order.
C11_ClampedNeverPadded ==
    p_pc = "returned" =>
        /\ p_result.exc = NoExc =>
              /\ Len(p_result.questions) <= 5
              /\ Len(p_result.questions) <= Len(TrimmedLines)
              /\ \A i \in DOMAIN p_result.questions :
                    TextLen(p_result.questions[i]) > 3
        /\ ( /\ TrimmedLines /= <<>> /\ Len(TrimmedLines) < 5
             /\ \A i \in DOMAIN TrimmedLines :
                   TextLen(NumberedClean(TrimmedLines[i])) > 3 ) =>
              /\ p_result.exc = NoExc
              /\ p_result.questions =
                    [i \in DOMAIN TrimmedLines |-> NumberedClean(TrimmedLines[i])]

\* C12: a response of at least five non-blank lines, each longer than 3
\* characters once cleaned, is returned as exactly 5 non-empty strings: the
\* first five lines, each trimmed, without its "N." prefix and without one
\* list marker, the remainder intact.
C12_PrimaryParse ==
    ( /\ p_pc = "returned"
      /\ Len(TrimmedLines) >= 5
      /\ \A i \in DOMAIN TrimmedLines :
            TextLen(NumberedClean(TrimmedLines[i])) > 3 ) =>
        /\ p_result.exc = NoExc
        /\ Len(p_result.questions) = 5
        /\ \A i \in 1..5 :
              /\ p_result.questions[i] /= <<>>
              /\ p_result.questions[i] = NumberedClean(TrimmedLines[i])

\* C14: the fallback parse cleans every non-blank line as the primary parse
\* does, so that when the primary parse keeps fewer than 5 questions the list
\* returned is the list the primary parse kept.
C14_FallbackSameStripping ==
    p_pc = "returned" =>
        /\ \A i \in DOMAIN TrimmedLines :
              LooseCleanLine(TrimmedLines[i]) = CleanLine(TrimmedLines[i])
        /\ p_result.exc = NoExc =>
              p_result.questions =
                 FirstFive(SelectSeq([i \in DOMAIN TrimmedLines |->
                                         CleanLine(TrimmedLines[i])], LongEnough))

NoiseTagSet == { REMOVE_TAGS[i] : i \in DOMAIN REMOVE_TAGS }

ContentTagSet == { CONTENT_TAGS[i] : i \in DOMAIN CONTENT_TAGS }

\* every string of the page, in document order
RECURSIVE AllStrings(_)
AllStrings(contents) ==
    IF contents = <<>> THEN <<>>
    ELSE LET node == Head(contents)
         IN (IF node.name = "#text" THEN <<node.string>> ELSE <<>>)
               \o AllStrings(node.contents) \o AllStrings(Tail(contents))

\* the strings that are not inside a noise element
RECURSIVE VisibleStrings(_)
VisibleStrings(contents) ==
    IF contents = <<>> THEN <<>>
    ELSE LET node == Head(contents)
         IN (IF node.name = "#text" THEN <<node.string>>
             ELSE IF node.name \in NoiseTagSet THEN <<>>
             ELSE VisibleStrings(node.contents))
               \o VisibleStrings(Tail(contents))

\* the strings whose parent is a div, outside noise elements
RECURSIVE DivStrings(_, _)
DivStrings(contents, parent) ==
    IF contents = <<>> THEN <<>>
    ELSE LET node == Head(contents)
         IN (IF node.name = "#text"
             THEN (IF parent = "div" THEN <<node.string>> ELSE <<>>)
             ELSE IF node.name \in NoiseTagSet THEN <<>>
             ELSE DivStrings(node.contents, node.name))
               \o DivStrings(Tail(contents), parent)

Chars(t) == { t[i].ch : i \in DOMAIN t }

CharsOf(strings) == UNION { Chars(strings[i]) : i \in DOMAIN strings }

AllBlank(strings) == \A i \in DOMAIN strings : strip(strings[i]) = <<>>

\* C13: text inside a noise element never reaches the returned text; a page
\* whose only text is inside noise elements fails with the ValueError of an
\* empty extraction; a page whose only text is directly in one div outside
\* noise elements returns that text, whitespace-collapsed.
C13_NoiseRemovedDivKept ==
    d_pc = "returned" =>
        /\ Chars(d_result.text) \subseteq CharsOf(VisibleStrings(d_soup)) \cup {" "}
        /\ AllBlank(VisibleStrings(d_soup)) =>
              /\ d_result.exc.cls = "ValueError"
              /\ d_result.text = <<>>
        /\ ( /\ Len(AllStrings(d_soup)) = 1
             /\ Len(DivStrings(d_soup, "#document")) = 1
             /\ ~AllBlank(AllStrings(d_soup)) ) =>
              /\ d_result.exc = NoExc
              /\ d_result.text = clean_text(AllStrings(d_soup)[1])

\* the content-tag elements left after the noise removal, in document order
RECURSIVE ContentElements(_)
ContentElements(contents) ==
    IF contents = <<>> THEN <<>>
    ELSE LET node == Head(contents)
         IN (IF node.name \in ContentTagSet THEN <<node>> ELSE <<>>)
               \o ContentElements(node.contents)
               \o ContentElements(Tail(contents))

\* their non-blank fragments, in that order
ScanOrderParts(soup) ==
    LET elements == ContentElements(soup)
    IN SelectSeq([i \in DOMAIN elements |-> get_text(elements[i].contents)],
                 NonBlank)

\* C15: the fragments collected from content-tag elements are concatenated
\* in document scan order, whatever the tag names: an element that starts
\* earlier in the document has its fragment earlier in the output.
C15_DocumentScanOrder ==
    ( /\ d_pc = "returned"
      /\ ScanOrderParts(RemoveTags(d_soup, REMOVE_TAGS)) /= <<>> ) =>
        /\ d_text_parts = ScanOrderParts(RemoveTags(d_soup, REMOVE_TAGS))
        /\ d_result = extract_text_result(ScanOrderParts(RemoveTags(d_soup, REMOVE_TAGS)))

====
